---- MODULE Spec2Model ----
(***************************************************************************)
(* Model of src/functions/gee_processing.py: rename_bands, add_indices and *)
(* add_dem over handles to remote images.                                  *)
(*                                                                         *)
(* An image value is a record [err, bands]: err = "" for an image whose    *)
(* evaluation succeeds, otherwise the error its evaluation ends in.  A     *)
(* band is [name, data]; data is the prefix-notation term (a sequence of   *)
(* strings) of the computation the remote service evaluates for the band:  *)
(*   <<"in", n>>               band n of the caller's original image       *)
(*   <<"asset", path>>         the band of the catalogue asset at path     *)
(*   <<"expr", text>> \o args  the band-math expression text applied to    *)
(*                             the bands it references, in reference order *)
(*   <<"float">> \o d          d cast to 32-bit float                      *)
(*   <<"slope">> \o d          terrain slope of d                          *)
(***************************************************************************)
EXTENDS Integers, Sequences, FiniteSets, TLC

VARIABLES heap, log

vars == <<heap, log>>

\* Longest sequence of calls a behaviour makes.
MaxCalls == 3

----------------------------------------------------------------------------
(* Image values and the remote image API the functions call.               *)

Image(bands) == [err |-> "", bands |-> bands]

Failed(msg) == [err |-> msg, bands |-> <<>>]

Band(name, data) == [name |-> name, data |-> data]

bandNames(image) == [i \in 1..Len(image.bands) |-> image.bands[i].name]

RangeOf(s) == {s[i] : i \in 1..Len(s)}

hasBand(image, name) == \E i \in 1..Len(image.bands) : image.bands[i].name = name

indexOf(image, name) == CHOOSE i \in 1..Len(image.bands) : image.bands[i].name = name

bandOf(image, name) == image.bands[indexOf(image, name)]

\* ee.Image.select(names): the named bands, in the order of the selectors;
\* a selector that matches no band is an error.
select(image, names) ==
  IF image.err # "" THEN image
  ELSE IF \E i \in 1..Len(names) : ~hasBand(image, names[i])
       THEN Failed("Image.select: band not found")
       ELSE Image([i \in 1..Len(names) |-> bandOf(image, names[i])])

\* ee.Image.rename(names): the bands renamed position by position; the
\* number of names must be the number of bands.
rename(image, names) ==
  IF image.err # "" THEN image
  ELSE IF Len(names) # Len(image.bands)
       THEN Failed("Image.rename: wrong number of names")
       ELSE Image([i \in 1..Len(names) |-> Band(names[i], image.bands[i].data)])

RECURSIVE argData(_, _)
argData(image, refs) ==
  IF refs = <<>> THEN <<>>
  ELSE bandOf(image, Head(refs)).data \o argData(image, Tail(refs))

\* ee.Image.expression(formula): one band, the formula evaluated over the
\* bands of the image that its b('..') terms name; a missing band is an error.
\* The band carries the name of the first band referenced.
expression(image, formula) ==
  IF image.err # "" THEN image
  ELSE IF \E i \in 1..Len(formula.refs) : ~hasBand(image, formula.refs[i])
       THEN Failed("Image.expression: band not found")
       ELSE Image(<<Band(formula.refs[1],
                         <<"expr", formula.text>> \o argData(image, formula.refs))>>)

\* ee.Image.toFloat(): every band cast to float, names kept.
toFloat(image) ==
  IF image.err # "" THEN image
  ELSE Image([i \in 1..Len(image.bands) |->
                Band(image.bands[i].name, <<"float">> \o image.bands[i].data)])

\* addOne without overwrite: the band is appended whatever its name.
addOne_append(dst, b) == Append(dst, b)

\* One band of srcImg added to the bands dst with overwrite = True: a band of
\* the same name is replaced where it stands, any other band is appended.
addOne(dst, b) ==
  IF \E i \in 1..Len(dst) : dst[i].name = b.name
  THEN [i \in 1..Len(dst) |-> IF dst[i].name = b.name THEN b ELSE dst[i]]
  ELSE Append(dst, b)

RECURSIVE addAll(_, _)
addAll(dst, src) ==
  IF src = <<>> THEN dst ELSE addAll(addOne(dst, Head(src)), Tail(src))

\* ee.Image.addBands(srcImg, None, True)
addBands(image, srcImg) ==
  IF image.err # "" THEN image
  ELSE IF srcImg.err # "" THEN srcImg
  ELSE Image(addAll(image.bands, srcImg.bands))

\* Name of the single band of each elevation asset of the catalogue.
assetBand(path) ==
  IF path = "WWF/HydroSHEDS/15CONDEM" THEN "b1" ELSE "elevation"

\* ee.Image(path): the catalogue asset at path.
ee_Image(path) == Image(<<Band(assetBand(path), <<"asset", path>>)>>)

\* ee.Terrain.slope(input): one band named slope, computed from the input.
Terrain_slope(input) ==
  IF input.err # "" THEN input
  ELSE Image(<<Band("slope", <<"slope">> \o input.bands[1].data)>>)

----------------------------------------------------------------------------
(* rename_bands                                                            *)

\* ori_names with the red and near-infrared bands exchanged.
ori_names_swapped == <<"SR_B1", "SR_B2", "SR_B4", "SR_B3", "ST_B6">>

ori_names == <<"SR_B1", "SR_B2", "SR_B3", "SR_B4", "ST_B6">>

new_names == <<"BLUE", "GREEN", "RED", "NIR", "TEMPERATURE">>

\* rename_bands that adds the renamed bands to the image instead of
\* returning them alone.
rename_bands_keep(image) ==
  addBands(image, rename(select(image, ori_names), new_names))

rename_bands(image) == rename(select(image, ori_names), new_names)

----------------------------------------------------------------------------
(* add_indices                                                             *)

\* The dict indices, in insertion order; refs are the bands each formula
\* names with b('..'), in order of first occurrence.
indices == <<
  [name |-> "NDVI",
   formula |-> [text |-> "(b('NIR') - b('RED'))/(b('NIR') + b('RED'))",
                refs |-> <<"NIR", "RED">>]],
  [name |-> "EVI",
   formula |-> [text |-> "2.5*((b('NIR') - b('RED'))/                 (b('NIR') + 6*b('RED') - 7.5*b('BLUE') + 1))",
                refs |-> <<"NIR", "RED", "BLUE">>]],
  [name |-> "NDMI",
   formula |-> [text |-> "(b('NIR') - b('RED'))/(b('NIR') + b('RED'))",
                refs |-> <<"NIR", "RED">>]],
  [name |-> "SAVI",
   formula |-> [text |-> "((b('NIR') - b('RED'))/(b('NIR') + b('RED') + 0.5))*(1.5)",
                refs |-> <<"NIR", "RED">>]],
  [name |-> "GCI",
   formula |-> [text |-> "(b('NIR')/b('GREEN')) - 1",
                refs |-> <<"NIR", "GREEN">>]] >>

\* The body of the for loop: one index computed from the current image and
\* added to it.
addIndex(image, name, formula) ==
  addBands(image, rename(toFloat(expression(image, formula)), <<name>>))

\* The loop run over the items from the last to the first.
RECURSIVE addIndicesFrom_reversed(_, _)
addIndicesFrom_reversed(image, items) ==
  IF items = <<>> THEN image
  ELSE addIndicesFrom_reversed(
         addIndex(image, items[Len(items)].name, items[Len(items)].formula),
         SubSeq(items, 1, Len(items) - 1))

RECURSIVE addIndicesFrom(_, _)
addIndicesFrom(image, items) ==
  IF items = <<>> THEN image
  ELSE addIndicesFrom(addIndex(image, Head(items).name, Head(items).formula),
                      Tail(items))

add_indices(image) == addIndicesFrom(image, indices)

----------------------------------------------------------------------------
(* add_dem                                                                 *)

slope_default == FALSE

dem_default == "SRTM_30m"

\* Value of the local dem_path that no case of the match statement binds.
Unbound == "<unbound>"

\* The match statement with the paths of the two SRTM cases exchanged.
dem_path_swapped(dem) ==
  CASE dem = "SRTM_30m" -> "CGIAR/SRTM90_V4"
    [] dem = "SRTM_90m" -> "USGS/SRTMGL1_003"
    [] dem = "HydroSHED_15arc" -> "WWF/HydroSHEDS/15CONDEM"
    [] dem = "GTOPO_30arc" -> "USGS/GTOPO30"
    [] OTHER -> Unbound

\* The match statement: the fall-through case builds an Exception and drops
\* it, so dem_path stays unbound.
dem_path(dem) ==
  CASE dem = "SRTM_30m" -> "USGS/SRTMGL1_003"
    [] dem = "SRTM_90m" -> "CGIAR/SRTM90_V4"
    [] dem = "HydroSHED_15arc" -> "WWF/HydroSHEDS/15CONDEM"
    [] dem = "GTOPO_30arc" -> "USGS/GTOPO30"
    [] OTHER -> Unbound

\* The image bound to the local dem after line 100.
demImage(dem) == rename(ee_Image(dem_path(dem)), <<"DEM">>)

\* The if statement with the slope computed from the image, not from dem.
withSlope_ofImage(image, slope, dem) ==
  IF slope
  THEN addBands(image, rename(Terrain_slope(image), <<"SLOPE">>))
  ELSE image

\* The if statement of lines 103-105.
withSlope(image, slope, dem) ==
  IF slope
  THEN addBands(image, rename(Terrain_slope(demImage(dem)), <<"SLOPE">>))
  ELSE image

add_dem(image, slope, dem) ==
  IF dem_path(dem) = Unbound
  THEN Failed("UnboundLocalError: cannot access local variable 'dem_path'")
  ELSE withSlope(addBands(image, demImage(dem)), slope, dem)

\* Names of the bands add_dem asks the service to add, in request order.
demRequests(slope, dem) ==
  IF dem_path(dem) = Unbound THEN <<>>
  ELSE IF slope THEN <<"DEM", "SLOPE">> ELSE <<"DEM">>

----------------------------------------------------------------------------
(* The caller: a pipeline of calls, each on the handle the previous call   *)
(* returned, starting from an original image.                              *)

Original(names) == Image([i \in 1..Len(names) |-> Band(names[i], <<"in", names[i]>>)])

\* Band lists of the original images: unique names, Landsat surface
\* reflectance bands in and out of order, with and without other bands,
\* already renamed images, and images that already carry index or terrain
\* bands.
InputBandLists == {
  <<"SR_B1", "SR_B2", "SR_B3", "SR_B4", "ST_B6">>,
  <<"SR_B1", "SR_B2", "SR_B3", "SR_B4", "SR_B5", "ST_B6", "SR_B7", "QA_PIXEL">>,
  <<"QA_PIXEL", "ST_B6", "SR_B4", "SR_B5", "SR_B3", "SR_B2", "SR_B1">>,
  <<"SR_B1", "SR_B2", "SR_B3", "SR_B4", "SR_B5", "SR_B7">>,
  <<"SR_B4", "SLOPE", "SR_B3", "NDVI", "SR_B2", "ST_B6", "SR_B1", "BLUE">>,
  <<"BLUE", "GREEN", "RED", "NIR">>,
  <<"BLUE", "GREEN", "RED", "NIR", "TEMPERATURE">>,
  <<"NIR", "NDVI", "RED", "GCI", "GREEN", "BLUE">>,
  <<"GCI", "SAVI", "NDMI", "EVI", "NDVI", "NIR", "RED", "GREEN", "BLUE">>,
  <<"SLOPE", "BLUE", "GREEN", "RED", "NIR">>,
  <<"SLOPE", "DEM", "RED", "NIR">>,
  <<"DEM", "BLUE", "GREEN", "RED", "NIR", "SLOPE">>,
  <<"NIR", "RED", "BLUE">>,
  <<"elevation", "slope", "RED", "NIR", "GREEN", "BLUE">>,
  <<>> }

\* Keys the caller passes as dem: the four of the docstring and two others.
DemArgs == {"SRTM_30m", "SRTM_90m", "HydroSHED_15arc", "GTOPO_30arc",
            "SRTM_10m", "srtm_30m"}

Call(op, slope, dem, given, result) ==
  [op |-> op, arg |-> Len(heap), slope |-> slope, dem |-> dem, given |-> given,
   err |-> result.err, requested |-> IF op = "add_dem" THEN demRequests(slope, dem) ELSE <<>>,
   res |-> IF result.err = "" THEN Len(heap) + 1 ELSE 0]

\* A return that also writes the result through the handle passed in.
Return_inPlace(op, slope, dem, given, result) ==
  /\ log' = Append(log, Call(op, slope, dem, given, result))
  /\ heap' = IF result.err = ""
             THEN [Append(heap, result) EXCEPT ![Len(heap)] = result]
             ELSE heap

\* The call returns result: a new handle on success, the error otherwise.
Return(op, slope, dem, given, result) ==
  /\ log' = Append(log, Call(op, slope, dem, given, result))
  /\ heap' = IF result.err = "" THEN Append(heap, result) ELSE heap

CanCall ==
  /\ Len(log) < MaxCalls
  /\ log # <<>> => log[Len(log)].err = ""

Init ==
  /\ \E names \in InputBandLists : heap = <<Original(names)>>
  /\ log = <<>>

CallRenameBands ==
  /\ CanCall
  /\ Return("rename_bands", FALSE, "", FALSE, rename_bands(heap[Len(heap)]))

CallAddIndices ==
  /\ CanCall
  /\ Return("add_indices", FALSE, "", FALSE, add_indices(heap[Len(heap)]))

\* add_dem(image, slope, dem)
CallAddDem ==
  /\ CanCall
  /\ \E slope \in BOOLEAN, dem \in DemArgs :
       Return("add_dem", slope, dem, TRUE, add_dem(heap[Len(heap)], slope, dem))

\* add_dem(image): both optional parameters take their defaults.
CallAddDemDefault ==
  /\ CanCall
  /\ Return("add_dem", slope_default, dem_default, FALSE,
            add_dem(heap[Len(heap)], slope_default, dem_default))

Next ==
  \/ CallRenameBands
  \/ CallAddIndices
  \/ CallAddDem
  \/ CallAddDemDefault

Spec == Init /\ [][Next]_vars

----------------------------------------------------------------------------
(* Vocabulary of the properties.                                           *)

Calls(op) == {i \in 1..Len(log) : log[i].op = op}

Ok(i) == log[i].err = ""

In(i) == heap[log[i].arg]

Out(i) == heap[log[i].res]

names(image) == RangeOf(bandNames(image))

IndexNames == {"NDVI", "EVI", "NDMI", "SAVI", "GCI"}

ValidKeys == {"SRTM_30m", "SRTM_90m", "HydroSHED_15arc", "GTOPO_30arc"}

\* The dataset the docstring of add_dem assigns to each key.
DatasetOf(key) ==
  CASE key = "SRTM_30m" -> "USGS/SRTMGL1_003"
    [] key = "SRTM_90m" -> "CGIAR/SRTM90_V4"
    [] key = "HydroSHED_15arc" -> "WWF/HydroSHEDS/15CONDEM"
    [] key = "GTOPO_30arc" -> "USGS/GTOPO30"

\* The band an index is when computed by its expression over image.
IndexBand(image, item) ==
  Band(item.name, <<"float", "expr", item.formula.text>> \o argData(image, item.formula.refs))

\* Bands of image followed by the names of extra that image does not have.
NamesPlus(image, extra) ==
  bandNames(image) \o SelectSeq(extra, LAMBDA n : n \notin names(image))

----------------------------------------------------------------------------
(* C1: for every image that contains SR_B1, SR_B2, SR_B3, SR_B4 and ST_B6, *)
(* in any position and among any other bands, rename_bands returns an      *)
(* image whose bands are exactly BLUE, GREEN, RED, NIR, TEMPERATURE in     *)
(* that order, carrying the data of SR_B1, SR_B2, SR_B3, SR_B4 and ST_B6;  *)
(* no other band of the input is in the result.                            *)
C1_RenameBands ==
  \A i \in Calls("rename_bands") :
    {"SR_B1", "SR_B2", "SR_B3", "SR_B4", "ST_B6"} \subseteq names(In(i))
    => /\ Ok(i)
       /\ Out(i).bands = << Band("BLUE", bandOf(In(i), "SR_B1").data),
                            Band("GREEN", bandOf(In(i), "SR_B2").data),
                            Band("RED", bandOf(In(i), "SR_B3").data),
                            Band("NIR", bandOf(In(i), "SR_B4").data),
                            Band("TEMPERATURE", bandOf(In(i), "ST_B6").data) >>

\* rename_bands has returned for an image that holds the five bands out of
\* order among other bands.
C1_Witness ==
  \E i \in Calls("rename_bands") :
    /\ Ok(i)
    /\ bandNames(In(i))[1] = "QA_PIXEL"
    /\ indexOf(In(i), "SR_B1") > indexOf(In(i), "SR_B4")
    /\ Len(In(i).bands) > 5
    /\ Len(Out(i).bands) = 5

----------------------------------------------------------------------------
(* C2, as stated: for every image that contains BLUE, GREEN, RED and NIR,  *)
(* add_indices returns an image that contains every band of the input      *)
(* unchanged and in the original order, plus NDVI, EVI, NDMI, SAVI and     *)
(* GCI, each computed by its expression over the input's bands; the five   *)
(* are appended in that order when the input has none of those names.      *)
C2_AsStated ==
  \A i \in Calls("add_indices") :
    {"BLUE", "GREEN", "RED", "NIR"} \subseteq names(In(i))
    => /\ Ok(i)
       /\ \A k \in 1..Len(In(i).bands) : Out(i).bands[k] = In(i).bands[k]
       /\ \A n \in 1..Len(indices) :
            /\ hasBand(Out(i), indices[n].name)
            /\ bandOf(Out(i), indices[n].name) = IndexBand(In(i), indices[n])
       /\ names(In(i)) \cap IndexNames = {}
          => bandNames(Out(i)) =
               bandNames(In(i)) \o <<"NDVI", "EVI", "NDMI", "SAVI", "GCI">>

(* C2, amended: the band names of the input stay where they are and every  *)
(* input band not named NDVI, EVI, NDMI, SAVI or GCI is unchanged; an      *)
(* input band with one of those names is replaced in place by the computed *)
(* index; the indices the input does not name are appended in the order    *)
(* NDVI, EVI, NDMI, SAVI, GCI.                                             *)
C2_AddIndices ==
  \A i \in Calls("add_indices") :
    {"BLUE", "GREEN", "RED", "NIR"} \subseteq names(In(i))
    => /\ Ok(i)
       /\ \A k \in 1..Len(In(i).bands) :
            /\ Out(i).bands[k].name = In(i).bands[k].name
            /\ In(i).bands[k].name \notin IndexNames
               => Out(i).bands[k] = In(i).bands[k]
       /\ \A n \in 1..Len(indices) :
            /\ hasBand(Out(i), indices[n].name)
            /\ bandOf(Out(i), indices[n].name) = IndexBand(In(i), indices[n])
       /\ bandNames(Out(i)) =
            NamesPlus(In(i), <<"NDVI", "EVI", "NDMI", "SAVI", "GCI">>)

\* add_indices has returned for an image that already had a band NDVI in
\* the middle of its bands, and replaced it.
C2_Witness ==
  \E i \in Calls("add_indices") :
    /\ Ok(i)
    /\ hasBand(In(i), "NDVI")
    /\ ~hasBand(In(i), "EVI")
    /\ indexOf(In(i), "NDVI") < Len(In(i).bands)
    /\ bandOf(Out(i), "NDVI") # bandOf(In(i), "NDVI")
    /\ Len(Out(i).bands) > Len(In(i).bands)

----------------------------------------------------------------------------
----------------------------------------------------------------------------
(* C4: a call of add_dem with a key that is not one of the four ends in an *)
(* error that carries the message "INVALID DEM, see the options in the     *)
(* docstring"; it returns no image and asks the service for no DEM or      *)
(* SLOPE band.                                                             *)
C4_InvalidDem ==
  \A i \in Calls("add_dem") :
    log[i].dem \notin ValidKeys
    => /\ log[i].err = "INVALID DEM, see the options in the docstring"
       /\ log[i].res = 0
       /\ log[i].requested = <<>>

----------------------------------------------------------------------------
(* C5, as stated: for every valid key add_dem adds SLOPE if and only if    *)
(* slope is True.  With slope False the result has the input's bands plus  *)
(* DEM and no SLOPE band is added; with slope True the result also has a   *)
(* band SLOPE, placed after DEM, that is the terrain slope of the dataset  *)
(* added as DEM.                                                           *)
SlopeCommon(i) ==
  /\ Ok(i)
  /\ ~log[i].given => ~log[i].slope
  /\ ~log[i].slope
     => /\ bandNames(Out(i)) = NamesPlus(In(i), <<"DEM">>)
        /\ hasBand(Out(i), "SLOPE")
           => hasBand(In(i), "SLOPE") /\ bandOf(Out(i), "SLOPE") = bandOf(In(i), "SLOPE")
  /\ log[i].slope
     => /\ bandNames(Out(i)) = NamesPlus(In(i), <<"DEM", "SLOPE">>)
        /\ bandOf(Out(i), "DEM").data = <<"asset", DatasetOf(log[i].dem)>>
        /\ bandOf(Out(i), "SLOPE").data = <<"slope", "asset", DatasetOf(log[i].dem)>>

C5_AsStated ==
  \A i \in Calls("add_dem") :
    log[i].dem \in ValidKeys
    => /\ SlopeCommon(i)
       /\ log[i].slope => indexOf(Out(i), "SLOPE") > indexOf(Out(i), "DEM")

(* C5, amended: SLOPE is placed after DEM, as the last band, when the      *)
(* input has no band named SLOPE; a band SLOPE of the input is replaced    *)
(* where it stands, which may be before DEM.                               *)
C5_Slope ==
  \A i \in Calls("add_dem") :
    log[i].dem \in ValidKeys
    => /\ SlopeCommon(i)
       /\ log[i].slope
          => IF hasBand(In(i), "SLOPE")
             THEN indexOf(Out(i), "SLOPE") = indexOf(In(i), "SLOPE")
             ELSE /\ indexOf(Out(i), "SLOPE") = Len(Out(i).bands)
                  /\ indexOf(Out(i), "SLOPE") > indexOf(Out(i), "DEM")

\* add_dem has added SLOPE right after DEM in one call and has added DEM
\* without SLOPE in another.
C5_Witness ==
  \E i, j \in Calls("add_dem") :
    /\ Ok(i) /\ log[i].slope /\ ~hasBand(In(i), "SLOPE")
    /\ indexOf(Out(i), "SLOPE") = indexOf(Out(i), "DEM") + 1
    /\ Ok(j) /\ ~log[j].slope /\ ~hasBand(Out(j), "SLOPE") /\ hasBand(Out(j), "DEM")

----------------------------------------------------------------------------
(* C6: the band NDMI is the moisture index, a different index from NDVI:   *)
(* the five bands are computed by five pairwise different expressions, so  *)
(* NDMI and NDVI are not the same function of the input bands.             *)
C6_DistinctIndices ==
  \A i \in Calls("add_indices") :
    Ok(i)
    => \A m, n \in IndexNames :
         m # n => bandOf(Out(i), m).data # bandOf(Out(i), n).data

----------------------------------------------------------------------------
(* C7: the functions are stateless pure mappings: two calls with the same  *)
(* arguments give the same outcome and the same bands whatever calls came  *)
(* before, the handle passed in has the same bands after the call, and the *)
(* result is a new handle.                                                 *)
SameResult ==
  \A i, j \in 1..Len(log) :
    (/\ log[i].op = log[j].op
     /\ log[i].slope = log[j].slope
     /\ log[i].dem = log[j].dem
     /\ In(i) = In(j))
    => /\ log[i].err = log[j].err
       /\ Ok(i) => Out(i) = Out(j)

HandlesKept ==
  /\ Len(heap') >= Len(heap)
  /\ \A h \in 1..Len(heap) : heap'[h] = heap[h]
  /\ \A i \in 1..Len(log) : Len(log') >= i /\ log'[i] = log[i]
  /\ Len(log') = Len(log) + 1
  /\ log'[Len(log')].res # 0
     => /\ log'[Len(log')].res \notin 1..Len(heap)
        /\ log'[Len(log')].res \in 1..Len(heap')

----------------------------------------------------------------------------
(* C8: bands are added with overwrite, so band names stay unique after any *)
(* sequence of calls on an image with unique names: a band already named   *)
(* NDVI, EVI, NDMI, SAVI, GCI, DEM or SLOPE is replaced in place.  So      *)
(* add_indices(add_indices(x)) has the band list of add_indices(x), and    *)
(* add_dem(add_dem(x, s, d), s, d) has the band list of add_dem(x, s, d).  *)
UniqueNames(image) ==
  \A a, b \in 1..Len(image.bands) :
    image.bands[a].name = image.bands[b].name => a = b

C8_Overwrite ==
  /\ \A h \in 1..Len(heap) : UniqueNames(heap[h])
  /\ \A i \in Calls("add_indices") \cup Calls("add_dem") :
       Ok(i) => \A k \in 1..Len(In(i).bands) :
                  Out(i).bands[k].name = In(i).bands[k].name
  /\ \A i \in 1..Len(log) :
       (/\ i + 1 <= Len(log)
        /\ log[i].op \in {"add_indices", "add_dem"}
        /\ Ok(i)
        /\ log[i + 1].op = log[i].op
        /\ log[i + 1].slope = log[i].slope
        /\ log[i + 1].dem = log[i].dem)
       => /\ Ok(i + 1)
          /\ bandNames(Out(i + 1)) = bandNames(Out(i))

\* add_indices and add_dem with slope have each been applied to their own
\* result.
C8_Witness ==
  \E i \in 1..Len(log) :
    /\ i + 1 <= Len(log)
    /\ log[i].op = "add_dem" /\ log[i + 1].op = "add_dem"
    /\ log[i].slope /\ log[i + 1].slope
    /\ log[i].dem = log[i + 1].dem
    /\ Ok(i) /\ Ok(i + 1)
    /\ Len(Out(i).bands) > Len(In(i).bands)
    /\ bandNames(Out(i + 1)) = bandNames(Out(i))

----------------------------------------------------------------------------
(* C9: for every image with SR_B1, SR_B2, SR_B3, SR_B4 and ST_B6, the      *)
(* result of rename_bands has the bands add_indices needs, and add_dem     *)
(* with slope of add_indices of rename_bands has exactly the bands BLUE,   *)
(* GREEN, RED, NIR, TEMPERATURE, NDVI, EVI, NDMI, SAVI, GCI, DEM, SLOPE;   *)
(* add_indices on an image without BLUE, GREEN, RED, NIR and rename_bands  *)
(* on its own result end in an error.                                      *)
HasRaw(image) == {"SR_B1", "SR_B2", "SR_B3", "SR_B4", "ST_B6"} \subseteq names(image)

C9_Compose ==
  /\ \A i \in Calls("rename_bands") :
       HasRaw(In(i))
       => /\ Ok(i)
          /\ {"BLUE", "GREEN", "RED", "NIR"} \subseteq names(Out(i))
          /\ (i + 1 <= Len(log) /\ log[i + 1].op = "add_indices")
             => /\ Ok(i + 1)
                /\ (/\ i + 2 <= Len(log)
                    /\ log[i + 2].op = "add_dem"
                    /\ log[i + 2].slope
                    /\ log[i + 2].dem \in ValidKeys)
                   => /\ Ok(i + 2)
                      /\ bandNames(Out(i + 2)) =
                           <<"BLUE", "GREEN", "RED", "NIR", "TEMPERATURE", "NDVI",
                             "EVI", "NDMI", "SAVI", "GCI", "DEM", "SLOPE">>
  /\ \A i \in Calls("add_indices") :
       names(In(i)) \cap {"BLUE", "GREEN", "RED", "NIR"} = {} => ~Ok(i)
  /\ \A i \in Calls("rename_bands") :
       (i > 1 /\ log[i - 1].op = "rename_bands") => ~Ok(i)

\* The three functions have been composed on an image that holds the five
\* bands.
C9_Witness ==
  /\ Len(log) = 3
  /\ log[1].op = "rename_bands" /\ HasRaw(In(1)) /\ Len(In(1).bands) > 5
  /\ log[2].op = "add_indices"
  /\ log[3].op = "add_dem" /\ log[3].slope /\ Ok(3)
  /\ Len(Out(3).bands) = 12

====
